---- MODULE Spec2Model ----
(***************************************************************************)
(* Model of the browser client of container-todo (src/static/app.js): the  *)
(* users/tasks cache and its full-refetch protocol (fetchUsers,            *)
(* fetchTasks, refreshAll, the mutation operations), the push channel      *)
(* (connectEvents with its message, ping and error handlers, bootstrap),   *)
(* and the session listeners (logout, the add-user form, the sign-in       *)
(* forms, the notification button, the assign buttons).                    *)
(*                                                                         *)
(* One action of the model is one turn of the single-threaded event loop:  *)
(* a user event, a timer callback, a push event, or the arrival of an HTTP *)
(* response together with every continuation (microtask) it resumes.  The  *)
(* HTTP server (app.py) is not part of src/; it is modelled from the       *)
(* interface table of the specification and marked as such.                *)
(***************************************************************************)
EXTENDS Integers, Sequences, FiniteSets, TLC

VARIABLES
  currentUser,  \* state.currentUser (NoUser when window.APP_CONTEXT has no user)
  window,       \* the browser: Notification.permission, and whether the page is
                \* being reloaded (location.reload() was called, no script has run yet)
  users,        \* state.users
  tasks,        \* state.tasks
  els,          \* the DOM elements the code reads and writes (form fields, lists)
  ops,          \* the async operations started so far, each with its position
  srv,          \* the server: users, tasks, next task id, change counter
  sources,      \* readyState of every EventSource that is not closed
  timers,       \* pending setTimeout(connectEvents, delay) timers: their delays
  turn,         \* the event-loop turn that ran last and its inputs
  out,          \* what that turn dispatched, in order (notices, cues, requests...)
  hist          \* history: which refresh wrote each cache, and the last one to complete

vars == <<currentUser, window, users, tasks, els, ops, srv, sources, timers, turn, out, hist>>

----------------------------------------------------------------------------
(* Bounds of the model.                                                    *)

MaxOps == 2        \* async operations started on one page (bootstrap included)
MaxChanges == 2    \* changes applied to the server's collections
MaxTitleLen == 1   \* characters typed into the title field

(* Program constants.                                                      *)

ReconnectDelay == 2000   \* setTimeout(connectEvents, 2000)
DefaultTone == 720       \* tones[kind] || 720

----------------------------------------------------------------------------
(* Values.                                                                 *)

NoId == 0                \* null assigned_user_id / no user
NullDate == "null"       \* null due_date
Undefined == "undefined" \* a missing field of a parsed object

NoUser == [id |-> NoId, username |-> "", is_admin |-> FALSE]
Admin == [id |-> 1, username |-> "admin", is_admin |-> TRUE]
SeqToSet(s) == {s[i] : i \in DOMAIN s}

RECURSIVE Filter(_, _)
\* Array.prototype.filter over a sequence, Keep(x) given as a set of kept values
Filter(s, keep) ==
  IF s = <<>> THEN <<>>
  ELSE IF Head(s) \in keep THEN <<Head(s)>> \o Filter(Tail(s), keep)
       ELSE Filter(Tail(s), keep)

Ids(s) == [i \in DOMAIN s |-> s[i].id]

----------------------------------------------------------------------------
(* What a turn dispatches: one record per call, in call order.             *)

Eff(e, a, b, n) == [e |-> e, a |-> a, b |-> b, n |-> n]

Calls(o, e) == Filter(o, {x \in SeqToSet(o) : x.e = e})

----------------------------------------------------------------------------
(* JSON texts the model exchanges, and JSON.parse on them.  A parsed value *)
(* is a record: throws (SyntaxError), null (the JSON value null), and the  *)
(* fields the code reads, Undefined when the object lacks them.            *)

TxtCreated == "{\"type\":\"created\",\"message\":\"Task created\"}"
TxtMystery == "{\"type\":\"mystery\",\"message\":\"Something happened\"}"
TxtNoFields == "{}"
TxtNull == "null"
TxtGarbage == "<html>Bad Gateway</html>"
TxtEmpty == ""
TxtNotFound == "{\"error\":\"Task not found\"}"
TxtEmptyError == "{\"error\":\"\"}"

Parsed(type, message, error) ==
  [throws |-> FALSE, null |-> FALSE, type |-> type, message |-> message, error |-> error]

JSONparse(text) ==
  CASE text = TxtCreated -> Parsed("created", "Task created", Undefined)
    [] text = TxtMystery -> Parsed("mystery", "Something happened", Undefined)
    [] text = TxtNoFields -> Parsed(Undefined, Undefined, Undefined)
    [] text = TxtNotFound -> Parsed(Undefined, Undefined, "Task not found")
    [] text = TxtEmptyError -> Parsed(Undefined, Undefined, "")
    [] text = TxtNull -> [Parsed(Undefined, Undefined, Undefined) EXCEPT !.null = TRUE]
    [] OTHER -> [Parsed(Undefined, Undefined, Undefined) EXCEPT !.throws = TRUE]

\* JavaScript truthiness of a string-or-undefined value
Truthy(v) == v # Undefined /\ v # ""

----------------------------------------------------------------------------
(* api (the failure branch): the message of the Error thrown for a         *)
(* response that is not ok.                                                *)

StatusText(status) ==
  CASE status = 403 -> "403 error"
    [] status = 404 -> "404 error"
    [] status = 500 -> "500 error"
    [] status = 502 -> "502 error"
    [] OTHER -> "error"

\* a variant with one fallback: the status message whenever no error field is found
apiErrorStatusOnly(status, text) ==
  LET body == JSONparse(text) IN
  IF body.throws \/ body.null THEN StatusText(status)
  ELSE IF Truthy(body.error) THEN body.error
  ELSE StatusText(status)

apiError(status, text) ==
  LET body == JSONparse(text) IN
  IF body.throws \/ body.null THEN StatusText(status)  \* res.json() or body.error threw
  ELSE IF Truthy(body.error) THEN body.error
  ELSE "Something went wrong."

----------------------------------------------------------------------------
(* toast, chime, maybeNotify: what each call dispatches.                   *)

toast(message, tone) ==
  IF ~Truthy(message) THEN <<>> ELSE <<Eff("toast", message, tone, 0)>>

tones(kind) ==
  CASE kind = "created" -> 880
    [] kind = "deleted" -> 420
    [] kind = "assigned" -> 660
    [] kind = "completed" -> 560
    [] kind = "reopened" -> 520
    [] kind = "info" -> 760
    [] OTHER -> 0     \* undefined

chime(kind) ==
  LET k == IF kind = Undefined THEN "info" ELSE kind      \* default parameter
      f == IF tones(k) # 0 THEN tones(k) ELSE DefaultTone
  IN <<Eff("chime", k, "", f)>>

Permissions == {"unsupported", "default", "granted", "denied"}

maybeNotify(event, permission, hidden) ==
  IF permission = "unsupported" THEN <<>>       \* !("Notification" in window)
  ELSE IF permission # "granted" THEN <<>>
  ELSE IF ~hidden THEN <<>>
  ELSE <<Eff("notify", "Todo update",
             IF Truthy(event.message) THEN event.message ELSE "Task activity", 0)>>

----------------------------------------------------------------------------
(* String.prototype.trim on the title field, a sequence of characters.     *)

Chars == {" ", "a"}
Whitespace == {" "}

RECURSIVE TrimStart(_)
TrimStart(s) ==
  IF s # <<>> /\ Head(s) \in Whitespace THEN TrimStart(Tail(s)) ELSE s

RECURSIVE TrimEnd(_)
TrimEnd(s) ==
  IF s # <<>> /\ s[Len(s)] \in Whitespace THEN TrimEnd(SubSeq(s, 1, Len(s) - 1)) ELSE s

trim(s) == TrimEnd(TrimStart(s))

Titles == UNION {[1..n -> Chars] : n \in 0..MaxTitleLen}

RECURSIVE Text(_)
\* the string a sequence of characters spells
Text(s) == IF s = <<>> THEN "" ELSE Head(s) \o Text(Tail(s))

\* what is typed into the add-user form: the name field and the password
AddUserFields == {<<<<"a">>, "pw">>, <<<<>>, "">>}

----------------------------------------------------------------------------
(* combineDateTime.  new Date("<date>T<time>") reads a local time, and     *)
(* toISOString prints the instant in UTC; an instant is counted in minutes *)
(* from 2024-03-01T00:00Z, tz is the zone's offset east of UTC in minutes. *)

NaN == -100000

DateInputs == {"", "2024-03-01", "2024-13-01"}
TimeInputs == {"", "09:00", "25:00"}
TimeZones == {0, 60, -300}

\* the due fields and the zone of the page the cache is exercised with
DueFields == {<<"", "09:00">>, <<"2024-03-01", "">>}
PageZones == {60}

DateMinutes(dateStr) == IF dateStr = "2024-03-01" THEN 0 ELSE NaN

TimeMinutes(timeStr) ==
  CASE timeStr = "00:00" -> 0
    [] timeStr = "09:00" -> 540
    [] OTHER -> NaN

\* new Date(`${dateStr}T${time}`).getTime(), in minutes
DateParse(dateStr, time, tz) ==
  IF DateMinutes(dateStr) = NaN \/ TimeMinutes(time) = NaN THEN NaN
  ELSE DateMinutes(dateStr) + TimeMinutes(time) - tz

Digit == <<"0", "1", "2", "3", "4", "5", "6", "7", "8", "9">>

\* padStart(2, "0") of a number below 100
TwoDigits(n) == Digit[(n \div 10) + 1] \o Digit[(n % 10) + 1]

\* the UTC calendar day, counted from 2024-03-01
DayString(d) ==
  CASE d = -1 -> "2024-02-29"
    [] d = 0 -> "2024-03-01"
    [] d = 1 -> "2024-03-02"
    [] OTHER -> "RangeError"

\* Date.prototype.toISOString: YYYY-MM-DDTHH:mm:ss.sssZ, in UTC
toISOString(m) ==
  IF m = NaN THEN "RangeError"
  ELSE DayString(m \div 1440) \o "T" \o TwoDigits((m % 1440) \div 60) \o ":"
         \o TwoDigits(m % 60) \o ":00.000Z"

\* a variant that passes the time field on as it is, without the midnight default
combineDateTimeAsTyped(dateStr, timeStr, tz) ==
  IF dateStr = "" THEN NullDate
  ELSE LET candidate == DateParse(dateStr, timeStr, tz)
       IN IF candidate = NaN THEN NullDate ELSE toISOString(candidate)

combineDateTime(dateStr, timeStr, tz) ==
  IF dateStr = "" THEN NullDate
  ELSE LET time == IF timeStr # "" THEN timeStr ELSE "00:00"
           candidate == DateParse(dateStr, time, tz)
       IN IF candidate = NaN THEN NullDate ELSE toISOString(candidate)

----------------------------------------------------------------------------
(* Requests and responses.                                                 *)

NoBody ==
  [has |-> {}, title |-> <<>>, assigned_user_id |-> NoId,
   due_date |-> NullDate, completed |-> FALSE, username |-> "", password |-> ""]

Req(method, path, id, body) == [method |-> method, path |-> path, id |-> id, body |-> body]

NoReq == Req("", "", NoId, NoBody)

Resp(ok, status, text) == [ok |-> ok, status |-> status, text |-> text]

Ok200 == Resp(TRUE, 200, TxtNoFields)

\* one fetch of a refreshAll: st is "none", "sent" (request on its way),
\* "ready" (the server has read the collection, at its change number ver,
\* and the response is on its way), "ok" or "failed"
NoFetch == [st |-> "none", snap |-> <<>>, ver |-> 0]

----------------------------------------------------------------------------
(* The server, modelled from the interface table of the specification: it  *)
(* holds the two collections, applies a valid request to them and answers  *)
(* a list request with the collection as it is at that moment.  session is *)
(* the user the browser's session belongs to; the page it serves carries   *)
(* that user.  The counters ver and at are history, they are not sent to   *)
(* the client.  A task carries its creation timestamp and its completion   *)
(* timestamp, which is set iff the task is completed.                      *)

\* the server's clock when it applies its n-th change; the clock moves on
\* between two changes
Stamp(n) == "t" \o ToString(n)

InitialTask ==
  [id |-> 1, title |-> <<"a">>, completed |-> FALSE, completed_at |-> NullDate,
   created_at |-> Stamp(0), assigned_user_id |-> NoId, due_date |-> NullDate]

ServerInit ==
  [users |-> <<[id |-> 1, username |-> "admin"], [id |-> 2, username |-> "bob"]>>,
   tasks |-> <<InitialTask>>, nextId |-> 2, nextUserId |-> 3, session |-> Admin,
   ver |-> 0, at |-> [users |-> 0, tasks |-> 0]]

HasId(coll, id) == \E i \in DOMAIN coll : coll[i].id = id

HasName(coll, name) == \E i \in DOMAIN coll : coll[i].username = name

SessionPaths == {"/auth/login", "/auth/logout"}

ServerValid(s, req, who) ==
  CASE req.path = "/api/tasks" -> TRUE
    [] req.path = "/api/tasks/{id}" -> HasId(s.tasks, req.id)
    [] req.path = "/api/users/{id}" -> who.is_admin /\ HasId(s.users, req.id)
    [] req.path = "/auth/register" -> ~HasName(s.users, req.body.username)
    [] req.path = "/auth/login" -> HasName(s.users, req.body.username)
    [] req.path = "/auth/logout" -> TRUE
    [] OTHER -> FALSE

\* the session of the user who signed in or registered under that name
SessionOf(coll, name) ==
  LET u == CHOOSE x \in SeqToSet(coll) : x.username = name
  IN [id |-> u.id, username |-> u.username, is_admin |-> (u.id = Admin.id)]

\* Whether a request that completes a task that is completed already
\* stamps it again is not specified: the server may keep the timestamp
\* (restamp = FALSE) or set it to the time of this request (TRUE).
Restamps(s, req) ==
  IF /\ req.method = "PATCH" /\ "completed" \in req.body.has /\ req.body.completed
     /\ \E i \in DOMAIN s.tasks : s.tasks[i].id = req.id /\ s.tasks[i].completed
  THEN BOOLEAN ELSE {FALSE}

\* a variant that flips the completed flag whenever the body carries one
PatchTaskFlip(t, body, now, restamp) ==
  [t EXCEPT
     !.completed = IF "completed" \in body.has THEN ~@ ELSE @,
     !.completed_at = IF "completed" \in body.has
                      THEN IF t.completed THEN NullDate ELSE now
                      ELSE @,
     !.assigned_user_id = IF "assigned_user_id" \in body.has THEN body.assigned_user_id ELSE @,
     !.due_date = IF "due_date" \in body.has THEN body.due_date ELSE @]

PatchTask(t, body, now, restamp) ==
  [t EXCEPT
     !.completed = IF "completed" \in body.has THEN body.completed ELSE @,
     !.completed_at = IF "completed" \in body.has
                      THEN IF ~body.completed THEN NullDate
                           ELSE IF t.completed /\ ~restamp THEN @
                           ELSE now
                      ELSE @,
     !.assigned_user_id = IF "assigned_user_id" \in body.has THEN body.assigned_user_id ELSE @,
     !.due_date = IF "due_date" \in body.has THEN body.due_date ELSE @]

ServerApply(s, req, restamp) ==
  LET now == Stamp(s.ver + 1)
      next ==
    CASE req.path = "/auth/logout" -> [s EXCEPT !.session = NoUser]
      [] req.path = "/auth/login" ->
           [s EXCEPT !.session = SessionOf(s.users, req.body.username)]
      [] req.path = "/auth/register" ->
           \* an admin adds a user; a visitor registers and is signed in
           LET added == Append(s.users, [id |-> s.nextUserId, username |-> req.body.username])
           IN [s EXCEPT !.users = added, !.nextUserId = @ + 1,
                        !.session = IF @.id = NoId
                                    THEN SessionOf(added, req.body.username) ELSE @]
      [] req.method = "POST" ->
           [s EXCEPT !.tasks = Append(@, [id |-> s.nextId, title |-> req.body.title,
                                          completed |-> FALSE,
                                          completed_at |-> NullDate,
                                          created_at |-> now,
                                          assigned_user_id |-> req.body.assigned_user_id,
                                          due_date |-> req.body.due_date]),
                     !.nextId = @ + 1]
      [] req.method = "PATCH" ->
           [s EXCEPT !.tasks = [i \in DOMAIN @ |->
                                  IF @[i].id = req.id
                                  THEN PatchTask(@[i], req.body, now, restamp)
                                  ELSE @[i]]]
      [] req.method = "DELETE" /\ req.path = "/api/tasks/{id}" ->
           [s EXCEPT !.tasks = Filter(@, {t \in SeqToSet(@) : t.id # req.id})]
      [] OTHER ->   \* DELETE /api/users/{id}: the user's tasks become unassigned
           [s EXCEPT !.users = Filter(@, {u \in SeqToSet(@) : u.id # req.id}),
                     !.tasks = [i \in DOMAIN @ |->
                                  IF @[i].assigned_user_id = req.id
                                  THEN [@[i] EXCEPT !.assigned_user_id = NoId] ELSE @[i]]]
  \* ver counts the requests applied to the collections, at the changes of
  \* each collection
  IN [next EXCEPT !.ver = IF req.path \in SessionPaths THEN @ ELSE @ + 1,
                  !.at = [users |-> IF next.users # s.users THEN @.users + 1 ELSE @.users,
                          tasks |-> IF next.tasks # s.tasks THEN @.tasks + 1 ELSE @.tasks]]

\* the answers the server can give to a mutation request
ServerAnswers(s, req, who) ==
  IF ServerValid(s, req, who)
  THEN {Resp(FALSE, 500, TxtNoFields)}
         \cup (IF s.ver < MaxChanges \/ req.path \in SessionPaths THEN {Ok200} ELSE {})
  ELSE IF req.method = "POST" THEN {Resp(FALSE, 403, TxtEmptyError)}
  ELSE {Resp(FALSE, 404, TxtNotFound)}

\* the answers the server can give to a list request
ListAnswers == {Ok200, Resp(FALSE, 502, TxtGarbage)}

----------------------------------------------------------------------------
(* Rendering: what renderUsers, renderAssigneeOptions and renderTasks      *)
(* leave in the DOM (element ids, in list order).                          *)

Active(ts) == Filter(ts, {t \in SeqToSet(ts) : ~t.completed})
Done(ts) == Filter(ts, {t \in SeqToSet(ts) : t.completed})

\* the elements as the served page has them: empty fields and lists, the
\* new-task select on "Unassigned", the notification button enabled
ElsInit ==
  [taskTitle |-> <<>>, taskDueDate |-> "", taskDueTime |-> "",
   userList |-> <<>>, assigneeOptions |-> <<>>,
   taskList |-> <<>>, completedList |-> <<>>, assignSelect |-> <<>>,
   taskAssignee |-> NoId, addUserName |-> <<>>, addUserPass |-> "",
   notifyBtn |-> [text |-> "", disabled |-> FALSE]]

renderUsers(e, us) == [e EXCEPT !.userList = Ids(us)]

\* select.value = v: the option with that value is selected, none (value
\* "") when no option has it
SelectValue(options, v) == IF v \in SeqToSet(options) THEN v ELSE NoId

\* the options are rebuilt and the value the select had is set again
renderAssigneeOptions(e, us) ==
  [e EXCEPT !.assigneeOptions = Ids(us),
            !.taskAssignee = SelectValue(Ids(us), @)]

updateNotifyButton(e, permission) ==
  [e EXCEPT !.notifyBtn =
     CASE permission = "unsupported" -> [text |-> "Notifications unsupported", disabled |-> TRUE]
       [] permission = "granted" -> [text |-> "Notifications on", disabled |-> TRUE]
       [] permission = "denied" -> [text |-> "Notifications blocked", disabled |-> TRUE]
       [] OTHER -> [text |-> "Enable notifications", disabled |-> FALSE]]

\* populateAssignSelect fills every task element's select from state.users
populateAssignSelect(stateUsers) == Ids(stateUsers)

\* a variant that does not empty the two lists first
renderTasksNoClear(e, ts, stateUsers) ==
  [e EXCEPT !.taskList = @ \o Ids(Active(ts)),
            !.completedList = @ \o Ids(Done(ts)),
            !.assignSelect = IF ts = <<>> THEN <<>> ELSE populateAssignSelect(stateUsers)]

renderTasks(e, ts, stateUsers) ==
  [e EXCEPT !.taskList = Ids(Active(ts)),
            !.completedList = Ids(Done(ts)),
            !.assignSelect = IF ts = <<>> THEN <<>> ELSE populateAssignSelect(stateUsers)]

----------------------------------------------------------------------------
(* fetchUsers / fetchTasks: the value assigned to the cache when the       *)
(* response has arrived.                                                   *)

\* a variant that appends the response to the cache
fetchUsersMerge(cache, response) == cache \o response

fetchUsers(cache, response) == response

\* a variant that patches the cache with the response instead of replacing it
fetchTasksMerge(cache, response) == cache \o response

\* a variant that patches the cache: it adds the tasks it does not hold yet
fetchTasksPatch(cache, response) ==
  cache \o Filter(response, {t \in SeqToSet(response) : ~HasId(cache, t.id)})

fetchTasks(cache, response) == response

----------------------------------------------------------------------------
(* Async operations.  pc is the await the operation is suspended at:       *)
(* "api" (its request), "refreshAll", "requestPermission", or how it       *)
(* ended: "returned", "caught" (its catch block ran) or "rejected" (its    *)
(* promise rejected with no handler).  For the add-user listener, which    *)
(* does not await the refreshAll() it calls, "refreshAll" is that pending  *)
(* promise.  rq follows the request like a fetch's st.                     *)

Mutations ==
  {"createTask", "toggleComplete", "updateAssignee", "updateDueDate", "deleteTask", "deleteUser"}

\* the operations that start with a request
Requesting == Mutations \cup {"addUser", "logout", "handleAuth"}

Op(kind, req) ==
  [kind |-> kind,
   pc |-> IF kind \in Requesting THEN "api"
          ELSE IF kind = "requestNotifyPermission" THEN "requestPermission"
          ELSE "refreshAll",
   req |-> req, rq |-> IF kind \in Requesting THEN "sent" ELSE "none", resp |-> Ok200,
   ver |-> 0, at |-> [users |-> 0, tasks |-> 0], since |-> 0, alone |-> FALSE,
   users |-> NoFetch, tasks |-> NoFetch]

InFlight(f) == f.st \in {"sent", "ready"}

FetchesInFlight(os) == {i \in DOMAIN os : InFlight(os[i].users) \/ InFlight(os[i].tasks)}

\* refreshAll(): both fetches are issued.  History: since is the server's
\* change counter at that moment, alone that no other fetch was in flight
refreshAll(os, i, now) ==
  [os EXCEPT ![i].pc = "refreshAll",
             ![i].since = now,
             ![i].alone = (FetchesInFlight(os) = {}),
             ![i].users = [NoFetch EXCEPT !.st = "sent"],
             ![i].tasks = [NoFetch EXCEPT !.st = "sent"]]

refreshAllOut ==
  <<Eff("refreshAll", "", "", 0),
    Eff("request", "GET", "/api/users", 0), Eff("request", "GET", "/api/tasks", 0)>>

Turn(kind, op, name, data) ==
  [kind |-> kind, op |-> op, name |-> name, data |-> data,
   permission |-> "default", hidden |-> FALSE, tz |-> 0]

----------------------------------------------------------------------------
(* connectEvents: a new EventSource, connecting.                           *)

connectEvents(srcs) == Append(srcs, "CONNECTING")

connectEventsOut == <<Eff("EventSource", "/api/events", "", 0)>>

----------------------------------------------------------------------------
(* bootstrap up to its first await, which is the state after construction: *)
(* a page without a user binds the sign-in forms; a page with one binds    *)
(* the app (bindApp sets the notification button) and issues refreshAll.   *)

HistInit ==
  [usersBy |-> 0, usersVer |-> 0, tasksBy |-> 0, tasksVer |-> 0,
   lastDone |-> 0, lastUsers |-> <<>>, lastTasks |-> <<>>]

bootstrap(user, permission, now) ==
  IF user.id = NoId
  THEN [els |-> ElsInit, ops |-> <<>>, out |-> <<>>, turn |-> Turn("bootstrap", 0, "", "")]
  ELSE [els |-> updateNotifyButton(ElsInit, permission),
        ops |-> refreshAll(<<Op("bootstrap", NoReq)>>, 1, now),
        out |-> refreshAllOut, turn |-> Turn("bootstrap", 1, "", "")]

\* the first page, in a browser whose notification permission is one of `permissions`
Boot(permissions) ==
  /\ currentUser \in {NoUser, Admin}
  /\ window \in {[permission |-> p, reloading |-> FALSE] : p \in permissions}
  /\ users = <<>>
  /\ tasks = <<>>
  /\ srv = [ServerInit EXCEPT !.session = currentUser]
  /\ sources = <<>>
  /\ timers = <<>>
  /\ hist = HistInit
  /\ els = bootstrap(currentUser, window.permission, 0).els
  /\ ops = bootstrap(currentUser, window.permission, 0).ops
  /\ out = bootstrap(currentUser, window.permission, 0).out
  /\ turn = bootstrap(currentUser, window.permission, 0).turn

Init == Boot({"default"})

\* the script has run and bindApp / bindAuth has bound the listeners
AppBound == currentUser.id # NoId

AuthBound == currentUser.id = NoId /\ ~window.reloading

CanStart == AppBound /\ Len(ops) < MaxOps

----------------------------------------------------------------------------
(* User events.                                                            *)

RenderedTasks == SeqToSet(els.taskList) \cup SeqToSet(els.completedList)

StartMutation(kind, req) ==
  /\ ops' = Append(ops, Op(kind, req))
  /\ out' = <<Eff("request", req.method, req.path, req.id)>>
  /\ turn' = Turn(kind, Len(ops) + 1, "", "")

\* a variant that tests the field without trim()
createTaskSendsRaw(titleField) == titleField # <<>>

\* createTask's guard: a request is sent only for a title that is not
\* empty after trim()
createTaskSends(titleField) == trim(titleField) # <<>>

CreateTask(titleField, dueDate, dueTime, tz) ==
  /\ AppBound
  /\ els' = [els EXCEPT !.taskTitle = titleField, !.taskDueDate = dueDate,
                        !.taskDueTime = dueTime]
  /\ IF createTaskSends(titleField)
     THEN /\ Len(ops) < MaxOps
          /\ StartMutation("createTask",
               Req("POST", "/api/tasks", NoId,
                   [NoBody EXCEPT !.has = {"title", "assigned_user_id", "due_date"},
                                  !.title = trim(titleField),
                                  !.assigned_user_id = els.taskAssignee,
                                  !.due_date = combineDateTime(dueDate, dueTime, tz)]))
     ELSE /\ ops' = ops
          /\ out' = <<>>
          /\ turn' = Turn("createTask", 0, "", "")
  /\ UNCHANGED <<currentUser, window, users, tasks, srv, sources, timers, hist>>

ToggleComplete(id, done) ==
  /\ CanStart
  /\ StartMutation("toggleComplete",
       Req("PATCH", "/api/tasks/{id}", id,
           [NoBody EXCEPT !.has = {"completed"}, !.completed = done]))
  /\ UNCHANGED <<currentUser, window, users, tasks, els, srv, sources, timers, hist>>

UpdateAssignee(id, assigned) ==
  /\ CanStart
  /\ StartMutation("updateAssignee",
       Req("PATCH", "/api/tasks/{id}", id,
           [NoBody EXCEPT !.has = {"assigned_user_id"}, !.assigned_user_id = assigned]))
  /\ UNCHANGED <<currentUser, window, users, tasks, els, srv, sources, timers, hist>>

\* the turn records the two fields and the zone the page runs in
UpdateDueDate(id, dueInput, timeInput, tz) ==
  LET req == Req("PATCH", "/api/tasks/{id}", id,
                 [NoBody EXCEPT !.has = {"due_date"},
                                !.due_date = combineDateTime(dueInput, timeInput, tz)])
  IN
  /\ CanStart
  /\ ops' = Append(ops, Op("updateDueDate", req))
  /\ out' = <<Eff("request", req.method, req.path, req.id)>>
  /\ turn' = [Turn("updateDueDate", Len(ops) + 1, dueInput, timeInput) EXCEPT !.tz = tz]
  /\ UNCHANGED <<currentUser, window, users, tasks, els, srv, sources, timers, hist>>

DeleteTask(id) ==
  /\ CanStart
  /\ StartMutation("deleteTask", Req("DELETE", "/api/tasks/{id}", id, NoBody))
  /\ UNCHANGED <<currentUser, window, users, tasks, els, srv, sources, timers, hist>>

DeleteUser(id, confirmed) ==
  /\ AppBound
  /\ currentUser.is_admin      \* the delete button is rendered for an admin only
  /\ IF confirmed
     THEN /\ Len(ops) < MaxOps
          /\ StartMutation("deleteUser", Req("DELETE", "/api/users/{id}", id, NoBody))
     ELSE /\ ops' = ops
          /\ out' = <<>>
          /\ turn' = Turn("deleteUser", 0, "", "")
  /\ UNCHANGED <<currentUser, window, users, tasks, els, srv, sources, timers, hist>>

\* the refresh button: refreshAll is the click listener, nothing awaits it
RefreshClick ==
  /\ CanStart
  /\ ops' = refreshAll(Append(ops, Op("refresh", NoReq)), Len(ops) + 1, srv.ver)
  /\ out' = refreshAllOut
  /\ turn' = Turn("refreshClick", Len(ops) + 1, "", "")
  /\ UNCHANGED <<currentUser, window, users, tasks, els, srv, sources, timers, hist>>

\* the logout button: logout is the click listener, nothing awaits it
Logout ==
  /\ CanStart
  /\ StartMutation("logout", Req("POST", "/auth/logout", NoId, NoBody))
  /\ UNCHANGED <<currentUser, window, users, tasks, els, srv, sources, timers, hist>>

\* the listener's guard: a name that is not empty after trim() and a password
addUserSends(nameField, password) == trim(nameField) # <<>> /\ password # ""

\* the add-user form, bound for an admin: the fields hold what was typed
AddUser(nameField, password) ==
  /\ AppBound
  /\ currentUser.is_admin
  /\ els' = [els EXCEPT !.addUserName = nameField, !.addUserPass = password]
  /\ IF addUserSends(nameField, password)
     THEN /\ Len(ops) < MaxOps
          /\ StartMutation("addUser",
               Req("POST", "/auth/register", NoId,
                   [NoBody EXCEPT !.has = {"username", "password"},
                                  !.username = Text(trim(nameField)),
                                  !.password = password]))
     ELSE /\ ops' = ops
          /\ out' = <<>>
          /\ turn' = Turn("addUser", 0, "", "")
  /\ UNCHANGED <<currentUser, window, users, tasks, srv, sources, timers, hist>>

\* the users whose Assign button is clicked
AssignButtons == {2}

\* the Assign button of a rendered user
SetAssignee(userId) ==
  /\ AppBound
  /\ els' = [els EXCEPT !.taskAssignee = SelectValue(els.assigneeOptions, userId)]
  /\ out' = toast("Assignee preselected for new tasks.", "info")
  /\ turn' = Turn("setAssignee", 0, "", "")
  /\ UNCHANGED <<currentUser, window, users, tasks, ops, srv, sources, timers, hist>>

\* the notification button (a disabled button gets no click), up to the
\* await of Notification.requestPermission()
RequestNotifyPermission ==
  /\ AppBound
  /\ ~els.notifyBtn.disabled
  /\ IF window.permission = "unsupported"
     THEN /\ ops' = ops
          /\ out' = toast("Notifications not supported in this browser", "error")
          /\ turn' = Turn("requestNotifyPermission", 0, "", "")
     ELSE /\ Len(ops) < MaxOps
          /\ ops' = Append(ops, Op("requestNotifyPermission", NoReq))
          /\ out' = <<Eff("requestPermission", "", "", 0)>>
          /\ turn' = Turn("requestNotifyPermission", Len(ops) + 1, "", "")
  /\ UNCHANGED <<currentUser, window, users, tasks, els, srv, sources, timers, hist>>

\* what the browser can answer to the permission prompt ("throws": the
\* call failed)
PromptAnswers == {"granted", "denied", "default", "throws"}

requestNotifyPermissionOut(answer) ==
  CASE answer = "granted" -> toast("Notifications enabled", "info")
    [] answer = "throws" -> toast("Could not request notifications", "error")
    [] OTHER -> toast("Notifications blocked by browser", "error")

\* requestNotifyPermission resumes: the notice, then updateNotifyButton
PermissionAnswered(i, answer) ==
  /\ ops[i].pc = "requestPermission"
  /\ window' = [window EXCEPT !.permission = IF answer = "throws" THEN @ ELSE answer]
  /\ els' = updateNotifyButton(els, window'.permission)
  /\ ops' = [ops EXCEPT ![i].pc = "returned"]
  /\ out' = requestNotifyPermissionOut(answer)
  /\ turn' = Turn("permission", i, answer, "")
  /\ UNCHANGED <<currentUser, users, tasks, srv, sources, timers, hist>>

\* the form's fields of the sign-in page
AuthForm == [NoBody EXCEPT !.has = {"username", "password"},
                           !.username = "admin", !.password = "pw"]

AuthEndpoints == {"/auth/login", "/auth/register"}

\* the sign-in and register forms of a page without a user, up to the
\* await of api
HandleAuth(endpoint) ==
  /\ AuthBound
  /\ Len(ops) < MaxOps
  /\ ops' = Append(ops, Op("handleAuth", Req("POST", endpoint, NoId, AuthForm)))
  /\ out' = <<Eff("request", "POST", endpoint, NoId)>>
  /\ turn' = Turn("handleAuth", Len(ops) + 1, endpoint, "")
  /\ UNCHANGED <<currentUser, window, users, tasks, els, srv, sources, timers, hist>>

----------------------------------------------------------------------------
(* The network and the server's side of a request.                         *)

ServeRequest(i, answer, restamp) ==
  /\ ops[i].rq = "sent"
  /\ answer \in ServerAnswers(srv, ops[i].req, currentUser)
  /\ restamp \in (IF answer.ok THEN Restamps(srv, ops[i].req) ELSE {FALSE})
  /\ srv' = IF answer.ok THEN ServerApply(srv, ops[i].req, restamp) ELSE srv
  /\ ops' = [ops EXCEPT ![i].rq = "ready", ![i].resp = answer,
                        ![i].ver = IF answer.ok THEN srv'.ver ELSE 0,
                        ![i].at = IF answer.ok THEN srv'.at ELSE @]
  /\ UNCHANGED <<currentUser, window, users, tasks, els, sources, timers, turn, out, hist>>

ServeFetch(i, which) ==
  /\ ops[i][which].st = "sent"
  /\ ops' = [ops EXCEPT ![i][which] = [st |-> "ready", snap |-> srv[which], ver |-> srv.at[which]]]
  /\ UNCHANGED <<currentUser, window, users, tasks, els, srv, sources, timers, turn, out, hist>>

\* a change made through another client
OtherRequests == {Req("DELETE", "/api/users/{id}", 2, NoBody)}

OtherClient(req) ==
  /\ srv.ver < MaxChanges
  /\ ServerValid(srv, req, Admin)
  /\ srv' = ServerApply(srv, req, FALSE)
  /\ UNCHANGED <<currentUser, window, users, tasks, els, ops, sources, timers, turn, out, hist>>

----------------------------------------------------------------------------
(* The continuation of an operation after its await of refreshAll().       *)

\* what the operation dispatches once refreshAll() has resolved
afterRefresh(kind) ==
  CASE kind = "bootstrap" -> connectEventsOut
    [] kind = "createTask" -> chime("created")
    [] kind = "deleteTask" -> chime("deleted")
    [] kind = "deleteUser" -> toast("User deleted", "info")
    [] OTHER -> <<>>

\* the failures a handler catches: the mutations and handleAuth run in
\* try/catch, the add-user listener has a .catch on its request only
Catching(kind, pc) ==
  kind \in Mutations \/ kind = "handleAuth" \/ (kind = "addUser" /\ pc = "api")

\* a variant whose catch block plays the operation's cue after the notice
failedWithCue(kind, pc, message) ==
  IF Catching(kind, pc)
  THEN [pc |-> "caught", out |-> toast(message, "error") \o afterRefresh(kind)]
  ELSE [pc |-> "rejected", out |-> <<>>]

\* how a failure inside the operation ends it: the handlers above catch it
\* and show it; bootstrap, logout and a refreshAll() that nothing awaits
\* have no handler
failed(kind, pc, message) ==
  IF Catching(kind, pc)
  THEN [pc |-> "caught", out |-> toast(message, "error")]
  ELSE [pc |-> "rejected", out |-> <<>>]

\* whether the operation calls location.reload() after its request:
\* logout always, handleAuth unless an admin has registered a user
reloads(kind, endpoint, user) ==
  \/ kind = "logout"
  \/ kind = "handleAuth" /\ ~(endpoint = "/auth/register" /\ user.is_admin)

\* location.reload(): the page is discarded with its caches, elements,
\* operations, connection and timers
reload ==
  /\ window' = [window EXCEPT !.reloading = TRUE]
  /\ currentUser' = NoUser
  /\ users' = <<>>
  /\ tasks' = <<>>
  /\ els' = ElsInit
  /\ ops' = <<>>
  /\ sources' = <<>>
  /\ timers' = <<>>
  /\ hist' = HistInit
  /\ out' = <<Eff("reload", "", "", 0)>>
  /\ turn' = Turn("reload", 0, "", "")

\* what the operation that does not reload does with its successful response
succeeded(kind, e) ==
  CASE kind = "createTask" ->
         [els |-> [e EXCEPT !.taskTitle = <<>>, !.taskDueDate = "", !.taskDueTime = ""],
          out |-> <<Eff("refreshAll", "", "", 0)>>]
    [] kind = "addUser" ->
         [els |-> [e EXCEPT !.addUserName = <<>>, !.addUserPass = ""],
          out |-> toast("User created", "info") \o <<Eff("refreshAll", "", "", 0)>>]
    [] kind = "handleAuth" -> [els |-> e, out |-> toast("User created", "info")]
    [] OTHER -> [els |-> e, out |-> <<Eff("refreshAll", "", "", 0)>>]

RECURSIVE WithRequests(_)
\* the calls of a handler with the two requests each refreshAll() sends
WithRequests(o) ==
  IF o = <<>> THEN <<>>
  ELSE IF Head(o).e = "refreshAll" THEN refreshAllOut \o WithRequests(Tail(o))
       ELSE <<Head(o)>> \o WithRequests(Tail(o))

\* the response to the operation's request has arrived: on success the
\* operation reloads the page, or clears its fields (createTask, add-user)
\* and issues refreshAll()
DeliverResponse(i) ==
  LET op == ops[i]
      done == [ops EXCEPT ![i].rq = "done", ![i].resp = Ok200]
  IN
  /\ op.rq = "ready"
  /\ IF op.resp.ok /\ reloads(op.kind, op.req.path, currentUser)
     THEN reload /\ srv' = srv
     ELSE /\ turn' = Turn("response", i, "", "")
          /\ IF op.resp.ok
             THEN LET s == succeeded(op.kind, els) IN
                  /\ els' = s.els
                  /\ ops' = IF Calls(s.out, "refreshAll") # <<>>
                            THEN refreshAll(done, i, srv.ver)
                            ELSE [done EXCEPT ![i].pc = "returned"]
                  /\ out' = WithRequests(s.out)
             ELSE LET f == failed(op.kind, "api", apiError(op.resp.status, op.resp.text)) IN
                  /\ els' = els
                  /\ ops' = [done EXCEPT ![i].pc = f.pc]
                  /\ out' = f.out
          /\ UNCHANGED <<currentUser, window, users, tasks, srv, sources, timers, hist>>

\* the browser loads the page again: the server puts the session's user in
\* it and the script runs bootstrap
Load ==
  LET b == bootstrap(srv.session, window.permission, srv.ver) IN
  /\ window.reloading
  /\ window' = [window EXCEPT !.reloading = FALSE]
  /\ currentUser' = srv.session
  /\ els' = b.els
  /\ ops' = b.ops
  /\ out' = b.out
  /\ turn' = b.turn
  /\ UNCHANGED <<users, tasks, srv, sources, timers, hist>>

Other(which) == IF which = "users" THEN "tasks" ELSE "users"

\* a variant that resolves with the first fetch that succeeds
promiseAny(op, which, ok) == IF ok THEN "resolved" ELSE "rejected"

\* Promise.all([fetchUsers(), fetchTasks()]) when the fetch of `which` settles
\* (ok or not) while the promise is still pending
promiseAll(op, which, ok) ==
  IF ~ok THEN "rejected"
  ELSE IF op[Other(which)].st = "ok" THEN "resolved"
  ELSE "pending"

\* history after a list response was handled by refresh i
Written(h, i, which, ok, resolved) ==
  LET w == IF ~ok THEN h
           ELSE IF which = "users"
           THEN [h EXCEPT !.usersBy = i, !.usersVer = ops[i].users.ver]
           ELSE [h EXCEPT !.tasksBy = i, !.tasksVer = ops[i].tasks.ver]
  IN IF resolved
     THEN [w EXCEPT !.lastDone = i, !.lastUsers = ops[i].users.snap,
                    !.lastTasks = ops[i].tasks.snap]
     ELSE w

\* a list response has arrived (answer is what the network hands to api):
\* fetchUsers / fetchTasks resumes, then Promise.all settles and the
\* awaiting operation resumes, all in one turn
DeliverFetch(i, which, answer) ==
  LET f == ops[i][which]
      awaited == ops[i].pc = "refreshAll"
      resolved == awaited /\ promiseAll(ops[i], which, answer.ok) = "resolved"
      rejected == awaited /\ promiseAll(ops[i], which, answer.ok) = "rejected"
      fail == failed(ops[i].kind, "refreshAll", apiError(answer.status, answer.text))
      done == [ops EXCEPT ![i][which].st = IF answer.ok THEN "ok" ELSE "failed",
                          ![i].pc = IF resolved THEN "returned"
                                    ELSE IF rejected THEN fail.pc ELSE @]
  IN
  /\ f.st = "ready"
  /\ turn' = Turn("fetched", i, which, "")
  /\ users' = IF answer.ok /\ which = "users" THEN fetchUsers(users, f.snap) ELSE users
  /\ tasks' = IF answer.ok /\ which = "tasks" THEN fetchTasks(tasks, f.snap) ELSE tasks
  /\ els' = IF ~answer.ok THEN els
            ELSE IF which = "users" THEN renderAssigneeOptions(renderUsers(els, f.snap), f.snap)
            ELSE renderTasks(els, f.snap, users)
  /\ hist' = Written(hist, i, which, answer.ok, resolved)
  \* the responses of a refresh that has settled are dropped
  /\ ops' = IF InFlight(done[i][Other(which)]) THEN done
            ELSE [done EXCEPT ![i].users.snap = <<>>, ![i].users.ver = 0,
                              ![i].tasks.snap = <<>>, ![i].tasks.ver = 0]
  /\ out' = IF resolved THEN afterRefresh(ops[i].kind)
            ELSE IF rejected THEN fail.out ELSE <<>>
  /\ sources' = IF resolved /\ ops[i].kind = "bootstrap" THEN connectEvents(sources)
                ELSE sources
  /\ UNCHANGED <<currentUser, window, srv, timers>>

----------------------------------------------------------------------------
(* The push channel: the handlers connectEvents installs on its source.    *)

PushTexts == {TxtCreated, TxtMystery, TxtNoFields, TxtNull, TxtGarbage}

\* a variant whose catch block swallows the error
onmessageSwallow(data, permission, hidden) ==
  LET parsed == JSONparse(data) IN
  IF parsed.throws \/ parsed.null
  THEN <<>>
  ELSE toast(parsed.message, "info") \o chime(parsed.type)
       \o maybeNotify(parsed, permission, hidden) \o <<Eff("refreshAll", "", "", 0)>>

\* a variant that resynchronises first and reports afterwards
onmessageRefreshFirst(data, permission, hidden) ==
  LET parsed == JSONparse(data) IN
  IF parsed.throws \/ parsed.null
  THEN <<Eff("refreshAll", "", "", 0)>>
  ELSE <<Eff("refreshAll", "", "", 0)>> \o toast(parsed.message, "info")
       \o chime(parsed.type) \o maybeNotify(parsed, permission, hidden)

\* source.onmessage: what it dispatches for event.data
onmessage(data, permission, hidden) ==
  LET parsed == JSONparse(data) IN
  IF parsed.throws \/ parsed.null      \* JSON.parse or data.message threw
  THEN <<Eff("refreshAll", "", "", 0)>>
  ELSE toast(parsed.message, "info") \o chime(parsed.type)
       \o maybeNotify(parsed, permission, hidden) \o <<Eff("refreshAll", "", "", 0)>>

\* a variant that runs onmessage for every event name
dispatchAny(name, data, permission, hidden) == onmessage(data, permission, hidden)

\* the listeners of the source: onmessage for the unnamed event, the empty
\* listener for "ping"
dispatch(name, data, permission, hidden) ==
  IF name = "message" THEN onmessage(data, permission, hidden) ELSE <<>>

\* variants of source.onerror: without source.close(), without setTimeout
onerrorNoClose(srcs, k) == srcs

onerrorNoTimer(tm) == tm

\* source.onerror: the notice, source.close(), setTimeout(connectEvents, 2000)
onerrorClose(srcs, k) == [j \in 1..(Len(srcs) - 1) |-> IF j < k THEN srcs[j] ELSE srcs[j + 1]]

onerrorTimers(tm) == Append(tm, ReconnectDelay)

onerrorOut ==
  toast("Connection lost, retrying...", "error")
    \o <<Eff("close", "", "", 0), Eff("setTimeout", "connectEvents", "", ReconnectDelay)>>

\* the connection is established (no handler is installed for it)
SourceOpen(k) ==
  /\ sources[k] = "CONNECTING"
  /\ sources' = [sources EXCEPT ![k] = "OPEN"]
  /\ UNCHANGED <<currentUser, window, users, tasks, els, ops, srv, timers, turn, out, hist>>

\* a push event arrives; permission is Notification.permission, hidden is
\* document.hidden at that moment
OnEvent(k, name, data, hidden) ==
  LET permission == window.permission
      o == dispatch(name, data, permission, hidden)
      n == Len(Calls(o, "refreshAll"))
  IN
  /\ sources[k] = "OPEN"
  /\ n > 0 => Len(ops) < MaxOps
  /\ turn' = [Turn("event", IF n > 0 THEN Len(ops) + 1 ELSE 0, name, data)
                EXCEPT !.permission = permission, !.hidden = hidden]
  /\ ops' = IF n > 0 THEN refreshAll(Append(ops, Op("refresh", NoReq)), Len(ops) + 1, srv.ver)
            ELSE ops
  /\ out' = WithRequests(o)
  /\ UNCHANGED <<currentUser, window, users, tasks, els, srv, sources, timers, hist>>

OnError(k) ==
  /\ k \in DOMAIN sources
  /\ turn' = Turn("error", 0, "", "")
  /\ sources' = onerrorClose(sources, k)
  /\ timers' = onerrorTimers(timers)
  /\ out' = onerrorOut
  /\ UNCHANGED <<currentUser, window, users, tasks, els, ops, srv, hist>>

\* a reconnect timer fires: connectEvents()
TimerFire ==
  /\ timers # <<>>
  /\ turn' = Turn("timer", 0, "", "")
  /\ timers' = Tail(timers)
  /\ sources' = connectEvents(sources)
  /\ out' = connectEventsOut
  /\ UNCHANGED <<currentUser, window, users, tasks, els, ops, srv, hist>>

----------------------------------------------------------------------------
(* Specifications.                                                         *)

User ==
  \/ \E t \in Titles :
        \E d \in (IF trim(t) = <<>> THEN {<<"", "">>} ELSE DueFields), tz \in PageZones :
           CreateTask(t, d[1], d[2], tz)
  \/ \E id \in RenderedTasks, done \in BOOLEAN : ToggleComplete(id, done)
  \/ \E id \in RenderedTasks, a \in {NoId} \cup SeqToSet(els.assignSelect) :
        UpdateAssignee(id, a)
  \/ \E id \in RenderedTasks, d \in DueFields, tz \in PageZones :
        UpdateDueDate(id, d[1], d[2], tz)
  \/ \E id \in RenderedTasks : DeleteTask(id)
  \/ \E id \in SeqToSet(els.userList), c \in BOOLEAN : DeleteUser(id, c)
  \/ RefreshClick
  \/ Logout
  \/ \E f \in AddUserFields : AddUser(f[1], f[2])
  \/ \E id \in SeqToSet(els.userList) \cap AssignButtons : SetAssignee(id)
  \/ RequestNotifyPermission

\* the listeners of the page without a user
Auth == \E e \in AuthEndpoints : HandleAuth(e)

\* the browser's side: the permission prompt is answered, a page is loaded
Browser ==
  \/ \E i \in DOMAIN ops, a \in PromptAnswers : PermissionAnswered(i, a)
  \/ Load

Fetches ==
  \/ \E i \in DOMAIN ops, w \in {"users", "tasks"} : ServeFetch(i, w)
  \/ \E i \in DOMAIN ops, w \in {"users", "tasks"}, a \in ListAnswers : DeliverFetch(i, w, a)
  \/ \E r \in OtherRequests : OtherClient(r)

Requests ==
  \/ \E i \in DOMAIN ops, r \in BOOLEAN :
        \E a \in ServerAnswers(srv, ops[i].req, currentUser) : ServeRequest(i, a, r)
  \/ \E i \in DOMAIN ops : DeliverResponse(i)

Push ==
  \/ \E k \in DOMAIN sources : SourceOpen(k)
  \/ \E k \in DOMAIN sources, d \in PushTexts, h \in BOOLEAN : OnEvent(k, "message", d, h)
  \/ \E k \in DOMAIN sources, d \in {TxtEmpty, TxtCreated}, h \in BOOLEAN :
        OnEvent(k, "ping", d, h)
  \/ \E k \in DOMAIN sources : OnError(k)
  \/ TimerFire

\* the cache protocol: the user's operations against the server, over
\* page loads
Next == User \/ Auth \/ Requests \/ Fetches \/ Browser

Spec == Init /\ [][Next]_vars

\* the push channel: events, errors and reconnects, with the refreshes
\* the messages start, in a browser with any notification permission
NextPush == Push \/ Fetches

InitPush == Boot(Permissions)

PushSpec == InitPush /\ [][NextPush]_vars

\* a pending timer fires: the browser runs the callbacks of expired timers
LivePushSpec == PushSpec /\ WF_vars(TimerFire)

----------------------------------------------------------------------------
(* Properties.                                                             *)

\* the operations of the page that are still there after the step (a
\* reload discards them all)
Kept == DOMAIN ops \cap DOMAIN ops'

Refreshing(i) == ops[i].users.st # "none"

ReturnedMutations == {i \in DOMAIN ops : ops[i].kind \in Mutations /\ ops[i].pc = "returned"}

\* C1: refreshAll swaps the two caches together, only after both fetches
\* have succeeded: each cache was last written by a refresh whose other
\* fetch has succeeded too (never by one whose other fetch failed or is
\* still in flight).
C1_AtomicSwap ==
  /\ hist.usersBy # 0 => ops[hist.usersBy].tasks.st = "ok"
  /\ hist.tasksBy # 0 => ops[hist.tasksBy].users.st = "ok"

\* C2 as stated: once a mutation operation has returned successfully, neither
\* cache holds a snapshot the server took before that mutation was applied,
\* whatever other refreshes are in flight.
C2_NeverOlder ==
  \A i \in ReturnedMutations :
    hist.usersVer >= ops[i].at.users /\ hist.tasksVer >= ops[i].at.tasks

\* C2 as amended: a mutation operation whose request succeeded has issued
\* refreshAll and returns only after both its fetches succeeded; and if no
\* other fetch was in flight when it issued that refreshAll, no cache holds a
\* snapshot older than the mutation once it has returned.
C2_RefreshedBeforeReturn ==
  \A i \in DOMAIN ops :
    ops[i].kind \in Mutations =>
      /\ ops[i].pc = "refreshAll" => Refreshing(i) /\ ops[i].ver > 0
      /\ ops[i].pc = "returned" =>
           /\ ops[i].users.st = "ok" /\ ops[i].tasks.st = "ok" /\ ops[i].ver > 0
           /\ ops[i].alone =>
                hist.usersVer >= ops[i].at.users /\ hist.tasksVer >= ops[i].at.tasks

\* a mutation has returned after a refresh it issued alone, which wrote
\* both caches
C2_Witness ==
  \E i \in ReturnedMutations :
    ops[i].alone /\ hist.tasksBy = i /\ hist.usersBy = i /\ hist.tasksVer = ops[i].at.tasks
      /\ ops[i].at.tasks > 0

\* C3: after changes to the server, a refreshAll that is issued with no
\* other fetch in flight and completes successfully leaves both caches equal
\* to the server's collections, as long as the server has not changed since
\* the refresh was issued.
C3_RoundTrip ==
  \A i \in DOMAIN ops :
    (ops[i].pc = "returned" /\ ops[i].alone /\ ops[i].since = srv.ver)
      => (users = srv.users /\ tasks = srv.tasks)

\* a mutation was applied after another change and its refresh has completed
C3_Witness ==
  \E i \in ReturnedMutations :
    ops[i].alone /\ ops[i].since = srv.ver /\ srv.ver = MaxChanges /\ ops[i].ver = MaxChanges

\* C4: when every refresh has completed (successfully), both caches hold the
\* snapshot returned to the refresh that completed last.
C4_LastWins ==
  ( /\ hist.lastDone # 0
    /\ \A i \in DOMAIN ops : Refreshing(i) => ops[i].users.st = "ok" /\ ops[i].tasks.st = "ok" )
    => (users = hist.lastUsers /\ tasks = hist.lastTasks)

\* C5: an error closes the failed connection and schedules exactly one
\* reconnect, after ReconnectDelay; there is never more than one pending
\* reconnect timer, and timers plus live connections never exceed one.
C5_OneReconnect ==
  /\ Len(timers) <= 1
  /\ Len(timers) + Len(sources) <= 1
  /\ \A t \in DOMAIN timers : timers[t] = ReconnectDelay
  /\ turn.kind = "error" =>
       /\ Len(timers) = 1 /\ sources = <<>>
       /\ Len(Calls(out, "setTimeout")) = 1 /\ Len(Calls(out, "close")) = 1
       /\ Calls(out, "setTimeout")[1].n = ReconnectDelay

\* an error has been handled after an earlier reconnect
C5_Witness ==
  turn.kind = "error" /\ Len(timers) = 1 /\ sources = <<>> /\ ops[1].pc = "returned"

\* C6: on an authenticated page whose bootstrap is over, exactly one push
\* connection is kept: at most one source is live, and when none is, a
\* reconnect is pending.
C6_OneConnection ==
  (AppBound /\ ops[1].pc # "refreshAll")
    => (Len(sources) <= 1 /\ (Len(sources) = 0 => Len(timers) >= 1))

\* C7: every connection error is eventually followed by a new connection
\* attempt (the reconnect timer fires and connectEvents runs).
C7_ReconnectForever ==
  (turn.kind = "error") ~> (turn.kind = "timer" /\ Len(sources) = 1)

\* a reconnect attempt has been made
C7_Witness ==
  turn.kind = "timer" /\ sources = <<"CONNECTING">> /\ timers = <<>>

\* C8: a ping event dispatches nothing (no notice, cue, notification or
\* refreshAll) and leaves the caches and the operations unchanged.
C8_PingIgnored ==
  [][(turn'.kind = "event" /\ turn'.name = "ping" /\ turn' # turn)
       => (out' = <<>> /\ UNCHANGED <<users, tasks, ops, els>>)]_vars

\* a ping arrived while the page was hidden and notifications were granted
C8_Witness ==
  turn.kind = "event" /\ turn.name = "ping" /\ turn.permission = "granted" /\ turn.hidden
    /\ turn.data = TxtCreated

\* C9: an unnamed message whose body cannot be parsed starts exactly one
\* refreshAll and dispatches no notice, cue or notification.
C9_UnparseableRefreshes ==
  (turn.kind = "event" /\ turn.name = "message" /\ JSONparse(turn.data).throws)
    => /\ Len(Calls(out, "refreshAll")) = 1
       /\ Calls(out, "toast") = <<>> /\ Calls(out, "chime") = <<>>
       /\ Calls(out, "notify") = <<>>
       /\ turn.op \in DOMAIN ops /\ ops[turn.op].kind = "refresh"

\* an unparseable message arrived while the page was hidden, notifications granted
C9_Witness ==
  turn.kind = "event" /\ turn.name = "message" /\ turn.data = TxtGarbage
    /\ turn.permission = "granted" /\ turn.hidden

\* C10: createTask with a title that is empty after trim() sends no request,
\* starts no refresh and leaves the caches (and the server) unchanged.
C10_BlankTitle ==
  [][(turn'.kind = "createTask" /\ trim(els'.taskTitle) = <<>>
        /\ <<turn, els>>' # <<turn, els>>)
       => (out' = <<>> /\ UNCHANGED <<users, tasks, ops, srv, hist>>)]_vars

\* a whitespace-only title was submitted while the caches were filled
C10_Witness ==
  turn.kind = "createTask" /\ els.taskTitle = <<" ">> /\ tasks # <<>> /\ users # <<>>

----------------------------------------------------------------------------
(* Failure handling.                                                       *)

\* the messages api can throw for a failed list request
FetchFailures == {apiError(a.status, a.text) : a \in {b \in ListAnswers : ~b.ok}}

\* the step in which the catch block of mutation i runs
Catches(i) == ops[i].kind \in Mutations /\ ops[i].pc # "caught" /\ ops'[i].pc = "caught"

\* C11: when a mutation fails (its request, or the refresh after it), the
\* turn that catches the failure shows exactly one error notice carrying the
\* failure's message and nothing else, and no cache holds a value written by
\* the failed operation, neither then nor later.
C11_FailureLeavesCache ==
  [][\A i \in Kept :
       /\ Catches(i) =>
            /\ Len(out') = 1 /\ out'[1].e = "toast" /\ out'[1].b = "error"
            /\ ops[i].pc = "api" =>
                 out'[1].a = apiError(ops[i].resp.status, ops[i].resp.text)
            /\ ops[i].pc = "refreshAll" => out'[1].a \in FetchFailures
       /\ (ops[i].kind \in Mutations /\ ops'[i].pc = "caught") =>
            (hist'.usersBy # i /\ hist'.tasksBy # i)]_vars

\* C12: no operation ends with a rejection that nothing handles.
C12_NothingUncaught == \A i \in DOMAIN ops : ops[i].pc # "rejected"

----------------------------------------------------------------------------
(* toggleComplete issued twice.  The page is taken once bootstrap has      *)
(* returned successfully: both caches loaded and rendered, the push        *)
(* connection requested; the finished bootstrap operation is no longer     *)
(* tracked in ops.                                                         *)

InitLoaded ==
  /\ currentUser = Admin
  /\ window = [permission |-> "default", reloading |-> FALSE]
  /\ users = fetchUsers(<<>>, ServerInit.users)
  /\ tasks = fetchTasks(<<>>, ServerInit.tasks)
  /\ els = renderTasks(renderAssigneeOptions(renderUsers(
              updateNotifyButton(ElsInit, window.permission), users), users), tasks, users)
  /\ srv = ServerInit
  /\ sources = connectEvents(<<>>)
  /\ timers = <<>>
  /\ hist = [HistInit EXCEPT !.lastUsers = users, !.lastTasks = tasks]
  /\ ops = <<>>
  /\ turn = Turn("fetched", 0, "tasks", "")
  /\ out = connectEventsOut

NextToggle ==
  \/ \E id \in RenderedTasks, done \in BOOLEAN : ToggleComplete(id, done)
  \/ Requests
  \/ Fetches

ToggleSpec == InitLoaded /\ [][NextToggle]_vars

\* the changes the page's own requests made to the server
OwnChanges(os) == Cardinality({i \in DOMAIN os : os[i].ver > 0})

\* toggleComplete was issued, has returned, and was issued again with the
\* same arguments
ToggledTwice(os) ==
  /\ Len(os) = 2
  /\ os[1].kind = "toggleComplete" /\ os[1].pc = "returned"
  /\ os[2].kind = "toggleComplete" /\ os[2].req = os[1].req

\* two task lists that are equal but, at most, for the completion timestamp
\* of the completed task id
SameButStamp(a, b, id) ==
  /\ Len(a) = Len(b)
  /\ \A k \in DOMAIN a :
        \/ a[k] = b[k]
        \/ /\ a[k].id = id /\ a[k].completed
           /\ a[k].completed_at # NullDate /\ b[k].completed_at # NullDate
           /\ [a[k] EXCEPT !.completed_at = b[k].completed_at] = b[k]

\* C13 as stated: once toggleComplete(id, done) has returned, issuing it again
\* with the same arguments never changes a cache, as long as nothing else
\* changes the server: the caches stay what they were after the first call.
C13_ToggleIdempotent ==
  [][(ToggledTwice(ops) /\ ToggledTwice(ops') /\ srv'.ver = OwnChanges(ops'))
       => UNCHANGED <<users, tasks>>]_vars

\* C13, amended: once toggleComplete(id, done) has returned, issuing it again
\* with the same arguments, with no other change on the server, leaves the
\* users cache as it was and the tasks cache as it was but, at most, for the
\* completion timestamp of task id; with done = false the tasks cache is
\* left as it was.
C13_ToggleResyncs ==
  [][(ToggledTwice(ops) /\ ToggledTwice(ops') /\ srv'.ver = OwnChanges(ops'))
       => /\ users' = users
          /\ SameButStamp(tasks, tasks', ops[2].req.id)
          /\ ~ops[2].req.body.completed => tasks' = tasks]_vars

\* the second toggleComplete(1, true) has been applied and has returned, and
\* the cache holds the task with the completion timestamp of the second
\* request
C13_Witness ==
  /\ ToggledTwice(ops) /\ ops[2].pc = "returned" /\ ops[2].ver = 2 /\ srv.ver = 2
  /\ ops[2].req.body.completed /\ tasks # <<>> /\ tasks[1].completed
  /\ tasks[1].completed_at = Stamp(2)
  /\ hist.tasksBy = 2 /\ hist.usersBy = 2

----------------------------------------------------------------------------
(* updateDueDate with every combination of the two fields, on a loaded     *)
(* page, in every zone.                                                    *)

NextDue ==
  \/ \E id \in RenderedTasks, d \in DateInputs, t \in TimeInputs, tz \in TimeZones :
        UpdateDueDate(id, d, t, tz)
  \/ Requests
  \/ Fetches

DueSpec == InitLoaded /\ [][NextDue]_vars

\* the due_date of the request the last turn's updateDueDate has sent
SentDueDate == ops[turn.op].req.body.due_date

Unparseable(d, t) == d = "2024-13-01" \/ t = "25:00"

WellFormed ==
  {"2024-03-01T00:00:00.000Z", "2024-02-29T23:00:00.000Z", "2024-03-01T05:00:00.000Z",
   "2024-03-01T09:00:00.000Z", "2024-03-01T08:00:00.000Z", "2024-03-01T14:00:00.000Z"}

\* what every reading of the claim agrees on: no date gives null whatever the
\* time (the same payload as with no time), an unparseable combination
\* gives null, and nothing else than null or a well-formed timestamp is sent
DueDateNullCases ==
  /\ turn.name = "" => SentDueDate = NullDate
  /\ Unparseable(turn.name, turn.data) => SentDueDate = NullDate
  /\ SentDueDate \in {NullDate} \cup WellFormed

\* C14 as stated: a date with no time is sent as that date at midnight,
\* 2024-03-01T00:00:00.
C14_MidnightAsWritten ==
  turn.kind = "updateDueDate" =>
    /\ DueDateNullCases
    /\ (turn.name = "2024-03-01" /\ turn.data = "") => SentDueDate = "2024-03-01T00:00:00"

\* C14 as amended: a date with no time is sent as the instant of midnight of
\* that date in the page's zone, printed in UTC with milliseconds and Z.
C14_MidnightInstant ==
  turn.kind = "updateDueDate" =>
    /\ DueDateNullCases
    /\ (turn.name = "2024-03-01" /\ turn.data = "") =>
         SentDueDate = CASE turn.tz = 0 -> "2024-03-01T00:00:00.000Z"
                         [] turn.tz = 60 -> "2024-02-29T23:00:00.000Z"
                         [] turn.tz = -300 -> "2024-03-01T05:00:00.000Z"
    /\ (turn.name = "2024-03-01" /\ turn.data = "09:00") =>
         SentDueDate = CASE turn.tz = 0 -> "2024-03-01T09:00:00.000Z"
                         [] turn.tz = 60 -> "2024-03-01T08:00:00.000Z"
                         [] turn.tz = -300 -> "2024-03-01T14:00:00.000Z"

\* a date with no time was submitted on a page east of UTC
C14_Witness ==
  /\ turn.kind = "updateDueDate" /\ turn.name = "2024-03-01" /\ turn.data = "" /\ turn.tz = 60
  /\ SentDueDate = "2024-02-29T23:00:00.000Z"

----------------------------------------------------------------------------
(* api on responses that are not ok: toggleComplete on a loaded page,      *)
(* answered with every failure status and body.                            *)

ErrorBodies == {TxtNotFound, TxtEmptyError, TxtNoFields, TxtNull, TxtGarbage, TxtEmpty}

ErrorAnswers == {Resp(FALSE, st, b) : st \in {403, 404, 500, 502}, b \in ErrorBodies}

\* the request fails on its way (server, proxy): nothing is applied
ServeError(i, answer) ==
  /\ ops[i].rq = "sent"
  /\ ops' = [ops EXCEPT ![i].rq = "ready", ![i].resp = answer]
  /\ UNCHANGED <<currentUser, window, users, tasks, els, srv, sources, timers, turn, out, hist>>

NextErr ==
  \/ \E id \in RenderedTasks, done \in BOOLEAN : ToggleComplete(id, done)
  \/ \E i \in DOMAIN ops, a \in ErrorAnswers : ServeError(i, a)
  \/ \E i \in DOMAIN ops : DeliverResponse(i)

ErrSpec == InitLoaded /\ [][NextErr]_vars

\* the step that hands a failed response to operation i
FailedResponse(i) == ops[i].rq = "ready" /\ ~ops[i].resp.ok /\ ops'[i].rq = "done"

Shown(message) == <<Eff("toast", message, "error", 0)>>

\* C15 as stated: the message is the body's error field when it carries one,
\* and "<status> error" in every other case.
C15_StatusErrorElse ==
  [][\A i \in DOMAIN ops : FailedResponse(i) =>
       out' = Shown(IF ops[i].resp.text = TxtNotFound THEN "Task not found"
                    ELSE StatusText(ops[i].resp.status))]_vars

\* C15 as amended: the body's error field when it carries a non-empty one;
\* "Something went wrong." for a body that parses to an object without one;
\* "<status> error" when the body does not parse to an object.
C15_ThreeMessages ==
  [][\A i \in DOMAIN ops : FailedResponse(i) =>
       out' = Shown(CASE ops[i].resp.text = TxtNotFound -> "Task not found"
                      [] ops[i].resp.text \in {TxtNoFields, TxtEmptyError} ->
                           "Something went wrong."
                      [] OTHER -> StatusText(ops[i].resp.status))]_vars

\* a failed response whose body parses to an object without an error field
\* has been handed to toggleComplete, after another failure
C15_Witness ==
  /\ Len(ops) = 2 /\ ops[1].pc = "caught" /\ ops[2].pc = "caught"
  /\ turn.kind = "response" /\ turn.op = 1 /\ out = Shown("Something went wrong.")

----------------------------------------------------------------------------
(* The order of a parsed push message's dispatch.                          *)

ParsedMessage ==
  /\ turn.kind = "event" /\ turn.name = "message"
  /\ ~JSONparse(turn.data).throws /\ ~JSONparse(turn.data).null

\* the notice of each message text (none for an event without a message)
ExpectedNotice ==
  CASE turn.data = TxtCreated -> <<Eff("toast", "Task created", "info", 0)>>
    [] turn.data = TxtMystery -> <<Eff("toast", "Something happened", "info", 0)>>
    [] OTHER -> <<>>

\* the cue of each message text: the category's tone, 720 for a category
\* that is not in the table
ExpectedCue ==
  CASE turn.data = TxtCreated -> <<Eff("chime", "created", "", 880)>>
    [] turn.data = TxtMystery -> <<Eff("chime", "mystery", "", 720)>>
    [] OTHER -> <<Eff("chime", "info", "", 760)>>

ExpectedNotification ==
  IF turn.hidden /\ turn.permission = "granted"
  THEN <<Eff("notify", "Todo update",
             CASE turn.data = TxtCreated -> "Task created"
               [] turn.data = TxtMystery -> "Something happened"
               [] OTHER -> "Task activity", 0)>>
  ELSE <<>>

\* C16: a parsed message dispatches, in this order, the notice with its
\* message, the cue of its category (the default cue for an unknown one), a
\* notification only when the page is hidden and permission is granted, and
\* then refreshAll, once and last.
C16_DispatchOrder ==
  ParsedMessage =>
    /\ out = ExpectedNotice \o ExpectedCue \o ExpectedNotification \o refreshAllOut
    /\ Len(Calls(out, "refreshAll")) = 1
    /\ turn.op \in DOMAIN ops /\ ops[turn.op].kind = "refresh"

\* a message of an unknown category arrived on a hidden page with permission
C16_Witness ==
  /\ ParsedMessage /\ turn.data = TxtMystery /\ turn.hidden /\ turn.permission = "granted"
  /\ Len(out) = 6 /\ out[2].n = DefaultTone

----------------------------------------------------------------------------
(* The whole page: the user's operations and the push channel together.    *)

NextPage == User \/ Auth \/ Requests \/ Fetches \/ Browser \/ Push

PageSpec == Init /\ [][NextPage]_vars

\* the step in which the list response of `which` is handed to refresh i
\* and accepted
Fetched(i, which) == ops[i][which].st = "ready" /\ ops'[i][which].st = "ok"

\* C17: while a page lives, a cache changes only in a step that hands a
\* successful list response to fetchUsers / fetchTasks, and that step leaves
\* the cache equal to the response; every other step (mutation, add-user,
\* assign button, push handler, reconnect, other fetch) leaves it as it is.
\* A cache ends with its page when location.reload() discards it.
C17_OnlyFetchWrites ==
  [][window'.reloading \/
     /\ \A i \in Kept :
          /\ Fetched(i, "users") => users' = ops[i].users.snap
          /\ Fetched(i, "tasks") => tasks' = ops[i].tasks.snap
     /\ users' # users => \E i \in Kept : Fetched(i, "users")
     /\ tasks' # tasks => \E i \in Kept : Fetched(i, "tasks")]_vars

\* after a push message, the response to its fetch has replaced a users
\* cache that held a user deleted since
C17_Witness ==
  /\ turn.kind = "fetched" /\ turn.name = "users" /\ hist.usersBy = 2 /\ hist.usersVer > 0
  /\ ops[2].kind = "refresh" /\ sources # <<>> /\ users = srv.users /\ Len(users) = 1

----------------------------------------------------------------------------
(* The rendered lists.                                                     *)

IdsOf(ts, done) == {t.id : t \in {x \in SeqToSet(ts) : x.completed = done}}

\* C18: at every turn boundary the two rendered lists partition the tasks
\* cache: the active list holds exactly the cached tasks that are not
\* completed, the completed list exactly the completed ones, each once.
C18_ListsPartition ==
  /\ SeqToSet(els.taskList) = IdsOf(tasks, FALSE)
  /\ SeqToSet(els.completedList) = IdsOf(tasks, TRUE)
  /\ SeqToSet(els.taskList) \cap SeqToSet(els.completedList) = {}
  /\ Len(els.taskList) + Len(els.completedList) = Len(tasks)

\* toggleComplete(1, true) on the one-task cache has returned, its refresh
\* brought the task back completed: it is in the completed list and the
\* active list is empty
C18_Witness ==
  /\ \E i \in ReturnedMutations :
       /\ ops[i].kind = "toggleComplete" /\ ops[i].req.id = 1 /\ ops[i].req.body.completed
       /\ hist.tasksBy = i
  /\ Len(tasks) = 1 /\ tasks[1].id = 1 /\ tasks[1].completed
  /\ els.completedList = <<1>> /\ els.taskList = <<>>

\* C20: when a refreshAll issued with no other fetch in flight has completed
\* successfully and has rendered tasks, the assignee dropdown of the task
\* elements lists exactly the users of the users cache, in either arrival
\* order of the two responses.
C20_DropdownMatchesUsers ==
  \A i \in DOMAIN ops :
    ( /\ turn.kind = "fetched" /\ turn.op = i /\ ops[i].pc = "returned" /\ ops[i].alone
      /\ FetchesInFlight(ops) = {} /\ tasks # <<>> )
      => els.assignSelect = Ids(users)

----------------------------------------------------------------------------
(* When the push connection is opened.                                     *)

BootstrapRefreshed ==
  /\ AppBound
  /\ ops[1].kind = "bootstrap" /\ ops[1].pc = "returned"
  /\ ops[1].users.st = "ok" /\ ops[1].tasks.st = "ok"

\* C19: a push connection exists, or a reconnect is scheduled, only on an
\* authenticated page whose bootstrap has got both responses of its initial
\* refreshAll; the turn that opens the first connection is the one in which
\* that refresh completes; and a page whose initial refresh failed never
\* has a connection or a reconnect timer.
C19_ConnectAfterBootstrap ==
  /\ (sources # <<>> \/ timers # <<>>) => BootstrapRefreshed
  /\ Calls(out, "EventSource") # <<>> =>
       /\ BootstrapRefreshed
       /\ turn.kind \in {"fetched", "timer"}
       /\ turn.kind = "fetched" => turn.op = 1
  /\ (AppBound /\ ops[1].pc = "rejected") => (sources = <<>> /\ timers = <<>>)
  /\ ~AppBound => /\ sources = <<>> /\ timers = <<>>
                  /\ \A i \in DOMAIN ops : ops[i].kind = "handleAuth" /\ ~Refreshing(i)

\* the initial refresh failed; later the refresh button brought both
\* collections, and there is still no connection and no reconnect timer
C19_Witness ==
  /\ AppBound /\ ops[1].pc = "rejected" /\ Len(ops) = 2
  /\ ops[2].kind = "refresh" /\ ops[2].pc = "returned"
  /\ users # <<>> /\ tasks # <<>> /\ sources = <<>> /\ timers = <<>>

----------------------------------------------------------------------------
(* createTask: the fields and the cue.                                     *)

FieldsCleared(e) == e.taskTitle = <<>> /\ e.taskDueDate = "" /\ e.taskDueTime = ""

CreatedCue == <<Eff("chime", "created", "", 880)>>

\* createTask i is handed the response to its POST
PostAnswered(i) ==
  ops[i].kind = "createTask" /\ ops[i].rq = "ready" /\ ops'[i].rq = "done"

\* the await of refreshAll() in createTask i ends: it returns, or its catch
\* block runs
RefreshEnds(i, how) ==
  ops[i].kind = "createTask" /\ ops[i].pc = "refreshAll" /\ ops'[i].pc = how

\* C21: the turn that hands createTask a successful POST response clears the
\* three fields and issues refreshAll, without a cue; a failed POST leaves
\* the fields and shows one error notice.  The "created" cue is played in the
\* turn in which that refreshAll resolves, and only there; when the refresh
\* fails, the turn shows one error notice and no cue, although the server
\* has applied the POST.
C21_ClearThenCue ==
  [][/\ \A i \in Kept :
       /\ (PostAnswered(i) /\ ops[i].resp.ok) =>
            /\ FieldsCleared(els') /\ out' = refreshAllOut /\ ops'[i].pc = "refreshAll"
       /\ (PostAnswered(i) /\ ~ops[i].resp.ok) =>
            /\ els' = els /\ ops'[i].pc = "caught"
            /\ Len(out') = 1 /\ out'[1].e = "toast" /\ out'[1].b = "error"
       /\ RefreshEnds(i, "returned") => out' = CreatedCue
       /\ RefreshEnds(i, "caught") =>
            /\ Len(out') = 1 /\ out'[1].e = "toast" /\ out'[1].b = "error"
            /\ ops[i].ver > 0
     /\ (<<turn, out>>' # <<turn, out>> /\ CreatedCue[1] \in SeqToSet(out')) =>
          \E i \in Kept : RefreshEnds(i, "returned")]_vars

\* the POST succeeded and the refresh failed: the fields are empty, the
\* notice is shown without a cue, and the server holds the new task
C21_Witness ==
  \E i \in DOMAIN ops :
    /\ ops[i].kind = "createTask" /\ ops[i].pc = "caught" /\ ops[i].ver > 0
    /\ turn.kind = "fetched" /\ turn.op = i
    /\ out = <<Eff("toast", "502 error", "error", 0)>>
    /\ FieldsCleared(els) /\ Len(srv.tasks) = 2

====
